---- MODULE Spec2Model ----
(***************************************************************************)
(* A model of autostereogram.py: gen_random_dot_strip, gen_strip_from_tile *)
(* and gen_autostereogram, one action per loop iteration.                  *)
(*                                                                         *)
(* An image is a record [width, height, pix] where pix maps <<x, y>> to an *)
(* RGB triple (the depth map, after convert('I'), maps <<x, y>> to an      *)
(* integer intensity).  None (an image of no cells) stands for Python's    *)
(* None and for a name that is not bound yet.                              *)
(***************************************************************************)
EXTENDS Integers, Sequences, FiniteSets, TLC

\* ---------------------------------------------------------------- bounds
MaxW == 3
MaxH == 2
MaxArea == 6
MaxLevels == 2
MaxTile == 2
MaxSeed == 0

VARIABLES
    depth_map,          \* the depth map argument (intensities, mode 'I')
    levels,             \* the levels argument
    tile,               \* the tile argument, or None
    rng,                \* state of the module-level random generator
    pc,                 \* "start", "rand", "tile", "rows", "done"
    outcome,            \* "running", "returned", or the exception raised
    num_strips,
    strip_width,
    image,
    background_strip,
    x, y,               \* loop variables of the loop being run
    phase,              \* loop of the row body: "left", "main", "right"
    r, g, b,            \* locals of gen_random_dot_strip (-1: unbound)
    rowpc, rowx,        \* per-row positions of the row-parallel schedule
    writes,             \* history: number of assignments to each image cell
    lastRead            \* history: the read of the latest main-pass step

vars == <<depth_map, levels, tile, rng, pc, outcome, num_strips, strip_width,
          image, background_strip, x, y, phase, r, g, b, rowpc, rowx,
          writes, lastRead>>

\* ------------------------------------------------------------ pixel data
Cells(w, h) == (0 .. w - 1) \X (0 .. h - 1)

Black == <<0, 0, 0>>

None == [width |-> 0, height |-> 0, pix |-> <<>>]

\* Image.new("RGB", (w, h)): every pixel black.
NewImage(w, h) == [width |-> w, height |-> h, pix |-> [c \in Cells(w, h) |-> Black]]

\* An "RGB" image stores 8-bit channels: a store clips each channel to 0..255.
Clip8(v) == IF v < 0 THEN 0 ELSE IF v > 255 THEN 255 ELSE v

\* pix[xx, yy] = p
PutPixel(img, xx, yy, p) ==
    [img EXCEPT !.pix[<<xx, yy>>] = <<Clip8(p[1]), Clip8(p[2]), Clip8(p[3])>>]

\* pix[xx, yy]
GetPixel(img, xx, yy) == img.pix[<<xx, yy>>]

\* ------------------------------------------------------- random generator
\* The module-level generator of `random`: a deterministic stream, here a
\* full-period congruential generator over the 257 values of randint(0, 256).
NextRand(s) == (3 * s + 256) % 257

\* randint(lo, hi): an integer N with lo <= N <= hi, both ends included.
randint(lo, hi, s) == lo + (s % (hi - lo + 1))

\* ---------------------------------------------------------------- inputs
Intensities == {0, 128, 255}

Sizes == { s \in (1 .. MaxW) \X (1 .. MaxH) : s[1] * s[2] <= MaxArea }

DepthMaps ==
    UNION { { [width |-> s[1], height |-> s[2], pix |-> f] :
                f \in [Cells(s[1], s[2]) -> Intensities] } : s \in Sizes }

\* A tile whose cells all differ (and differ from black).
MkTile(w, h) ==
    [width |-> w, height |-> h,
     pix |-> [c \in Cells(w, h) |-> <<10 + c[1], 20 + c[2], 30>>]]

Tiles == { MkTile(w, h) : w \in 1 .. MaxTile, h \in 1 .. MaxTile }

\* ------------------------------------------------------------ arithmetic
\* Mutation: the .75 factor dropped.
NumStripsNoFactor(w, l) == w \div l

\* int(depth_map_width * .75 / levels): .75 is exact in binary floating
\* point and the quotient is never within rounding distance of an integer
\* it does not equal, so the truncation is that of 3 * w / (4 * l).
NumStrips(w, l) == (3 * w) \div (4 * l)

StripWidth(w, n) == w \div n

\* round(num / den) for num >= 0, den > 0: Python 3 rounds halves to even.
Round(num, den) ==
    LET q == num \div den
        m == num % den
    IN  IF 2 * m < den THEN q
        ELSE IF 2 * m > den THEN q + 1
        ELSE IF q % 2 = 0 THEN q ELSE q + 1

\* Mutation: scaled by 256 with integer division.
DepthOffsetTruncated(intensity, l) == (intensity * l) \div 256

DepthOffset(intensity, l) == Round(intensity * l, 255)

Init ==
    /\ depth_map \in DepthMaps
    /\ levels \in 1 .. MaxLevels
    /\ \/ tile = None /\ rng \in 0 .. MaxSeed
       \/ tile \in Tiles /\ rng = 0
    /\ pc = "start"
    /\ outcome = "running"
    /\ num_strips = 0
    /\ strip_width = 0
    /\ image = None
    /\ background_strip = None
    /\ x = 0 /\ y = 0
    /\ phase = "left"
    /\ r = -1 /\ g = -1 /\ b = -1
    /\ rowpc = <<>> /\ rowx = <<>>
    /\ writes = <<>>
    /\ lastRead = <<>>

\* gen_autostereogram up to the call that builds the background strip.
Start ==
    /\ pc = "start"
    /\ num_strips' = NumStrips(depth_map.width, levels)
    /\ IF num_strips' = 0
       THEN /\ outcome' = "ZeroDivisionError"
            /\ pc' = "done"
            /\ UNCHANGED <<strip_width, image, background_strip, writes, rowpc, rowx>>
       ELSE /\ strip_width' = StripWidth(depth_map.width, num_strips')
            /\ image' = NewImage(depth_map.width + strip_width' * 2, depth_map.height)
            /\ background_strip' = NewImage(strip_width', depth_map.height)
            /\ pc' = IF tile # None THEN "tile" ELSE "rand"
            /\ writes' = [c \in Cells(depth_map.width + strip_width' * 2,
                                      depth_map.height) |-> 0]
            /\ rowpc' = [k \in 0 .. depth_map.height - 1 |-> "left"]
            /\ rowx' = [k \in 0 .. depth_map.height - 1 |-> 0]
            /\ UNCHANGED outcome
    /\ UNCHANGED <<depth_map, levels, tile, rng, x, y, phase, r, g, b, lastRead>>

\* ------------------------------------------------- gen_random_dot_strip
\* The three draws of one iteration, in the order r, g, b.
Draws(s) ==
    LET s1 == NextRand(s)
        s2 == NextRand(s1)
        s3 == NextRand(s2)
    IN  [r |-> randint(0, 256, s1), g |-> randint(0, 256, s2),
         b |-> randint(0, 256, s3), rng |-> s3]

\* One iteration of `for x in range(width): for y in range(height)`, and
\* the return to gen_autostereogram after the last one.
RandomDotStep ==
    /\ pc = "rand"
    /\ LET d == Draws(rng)
       IN  /\ r' = d.r /\ g' = d.g /\ b' = d.b
           /\ rng' = d.rng
           /\ background_strip' = PutPixel(background_strip, x, y, <<d.r, d.g, d.b>>)
    /\ IF y + 1 < background_strip.height
       THEN /\ y' = y + 1
            /\ UNCHANGED <<x, pc>>
       ELSE IF x + 1 < background_strip.width
       THEN /\ x' = x + 1 /\ y' = 0
            /\ UNCHANGED pc
       ELSE /\ x' = 0 /\ y' = 0
            /\ pc' = "rows"
    /\ UNCHANGED <<depth_map, levels, tile, outcome, num_strips, strip_width,
                   image, phase, rowpc, rowx, writes, lastRead>>

\* ---------------------------------------------------- gen_strip_from_tile
\* Mutation: y_offset computed from x.
TilePixelXOnly(t, xx, yy) == t.pix[<<xx % t.width, xx % t.height>>]

\* tile_pixels[x % tile_width, y % tile_height]
TilePixel(t, xx, yy) == GetPixel(t, xx % t.width, yy % t.height)

TileStep ==
    /\ pc = "tile"
    /\ background_strip' = PutPixel(background_strip, x, y, TilePixel(tile, x, y))
    /\ IF y + 1 < background_strip.height
       THEN /\ y' = y + 1
            /\ UNCHANGED <<x, pc>>
       ELSE IF x + 1 < background_strip.width
       THEN /\ x' = x + 1 /\ y' = 0
            /\ UNCHANGED pc
       ELSE /\ x' = 0 /\ y' = 0
            /\ pc' = "rows"
    /\ UNCHANGED <<depth_map, levels, tile, rng, outcome, num_strips, strip_width,
                   image, phase, r, g, b, rowpc, rowx, writes, lastRead>>

\* ------------------------------------------- the row body of the main loop
\* Mutation: the left pad copies row 0 of the strip into every row.
LeftPadWriteRow0(img, xx, yy) ==
    [img EXCEPT !.pix[<<xx, yy>>] = background_strip.pix[<<xx, 0>>]]

\* image_pixels[x, y] = strip_pixels[x, y]
LeftPadWrite(img, xx, yy) ==
    PutPixel(img, xx, yy, GetPixel(background_strip, xx, yy))

\* The column read by main-pass step xx of row yy.
MainPassSource(xx, yy) == xx + DepthOffset(depth_map.pix[<<xx, yy>>], levels)

\* offset = x + strip_width
MainPassOffset(xx) == xx + strip_width

\* Mutation: the source is read from the row above.
MainPassWriteAbove(img, xx, yy) ==
    [img EXCEPT !.pix[<<MainPassOffset(xx), yy>>] =
        img.pix[<<MainPassSource(xx, yy), IF yy > 0 THEN yy - 1 ELSE yy>>]]

\* image_pixels[offset, y] = image_pixels[x + depth_offset, y]
MainPassWrite(img, xx, yy) ==
    PutPixel(img, MainPassOffset(xx), yy, GetPixel(img, MainPassSource(xx, yy), yy))

\* Mutation: the strip width left out of the offset.
RightPadOffsetNoStrip(xx) == depth_map.width + xx

\* offset = depth_map_width + strip_width + x
RightPadOffset(xx) == depth_map.width + strip_width + xx

\* Mutation: the right pad is a copy of the background strip.
RightPadWriteFromStrip(img, xx, yy) ==
    [img EXCEPT !.pix[<<RightPadOffset(xx), yy>>] = background_strip.pix[<<xx, yy>>]]

\* image_pixels[offset, y] = image_pixels[offset - strip_width, y]
RightPadWrite(img, xx, yy) ==
    PutPixel(img, RightPadOffset(xx), yy,
             GetPixel(img, RightPadOffset(xx) - strip_width, yy))

Wrote(xx, yy) == [writes EXCEPT ![<<xx, yy>>] = @ + 1]

LeftPadStep ==
    /\ pc = "rows" /\ phase = "left"
    /\ image' = LeftPadWrite(image, x, y)
    /\ writes' = Wrote(x, y)
    /\ IF x + 1 < strip_width
       THEN x' = x + 1 /\ UNCHANGED phase
       ELSE x' = 0 /\ phase' = "main"
    /\ UNCHANGED <<depth_map, levels, tile, rng, pc, outcome, num_strips,
                   strip_width, background_strip, y, r, g, b, rowpc, rowx, lastRead>>

MainPassStep ==
    /\ pc = "rows" /\ phase = "main"
    /\ image' = MainPassWrite(image, x, y)
    /\ writes' = Wrote(MainPassOffset(x), y)
    /\ lastRead' = [src |-> MainPassSource(x, y), dst |-> MainPassOffset(x),
                    written |-> writes[<<MainPassSource(x, y), y>>] > 0]
    /\ IF x + 1 < depth_map.width
       THEN x' = x + 1 /\ UNCHANGED phase
       ELSE x' = 0 /\ phase' = "right"
    /\ UNCHANGED <<depth_map, levels, tile, rng, pc, outcome, num_strips,
                   strip_width, background_strip, y, r, g, b, rowpc, rowx>>

RightPadStep ==
    /\ pc = "rows" /\ phase = "right"
    /\ image' = RightPadWrite(image, x, y)
    /\ writes' = Wrote(RightPadOffset(x), y)
    /\ IF x + 1 < strip_width
       THEN /\ x' = x + 1
            /\ UNCHANGED <<y, phase, pc, outcome>>
       ELSE IF y + 1 < depth_map.height
       THEN /\ x' = 0 /\ y' = y + 1 /\ phase' = "left"
            /\ UNCHANGED <<pc, outcome>>
       ELSE /\ x' = 0
            /\ pc' = "done" /\ outcome' = "returned"
            /\ UNCHANGED <<y, phase>>
    /\ UNCHANGED <<depth_map, levels, tile, rng, num_strips, strip_width,
                   background_strip, r, g, b, rowpc, rowx, lastRead>>

Next ==
    \/ Start
    \/ RandomDotStep
    \/ TileStep
    \/ LeftPadStep
    \/ MainPassStep
    \/ RightPadStep

Spec == Init /\ [][Next]_vars

\* ------------------------------------------------ the row-parallel schedule
\* The same row body, run for every row by a worker of its own: rowpc[yy]
\* and rowx[yy] are the loop and loop variable x of the worker of row yy.
RowLeftPadStep(yy) ==
    /\ pc = "rows" /\ rowpc[yy] = "left"
    /\ image' = LeftPadWrite(image, rowx[yy], yy)
    /\ writes' = Wrote(rowx[yy], yy)
    /\ IF rowx[yy] + 1 < strip_width
       THEN rowx' = [rowx EXCEPT ![yy] = @ + 1] /\ UNCHANGED rowpc
       ELSE rowx' = [rowx EXCEPT ![yy] = 0] /\ rowpc' = [rowpc EXCEPT ![yy] = "main"]
    /\ UNCHANGED <<depth_map, levels, tile, rng, pc, outcome, num_strips, strip_width,
                   background_strip, x, y, phase, r, g, b, lastRead>>

RowMainPassStep(yy) ==
    /\ pc = "rows" /\ rowpc[yy] = "main"
    /\ image' = MainPassWrite(image, rowx[yy], yy)
    /\ writes' = Wrote(MainPassOffset(rowx[yy]), yy)
    /\ IF rowx[yy] + 1 < depth_map.width
       THEN rowx' = [rowx EXCEPT ![yy] = @ + 1] /\ UNCHANGED rowpc
       ELSE rowx' = [rowx EXCEPT ![yy] = 0] /\ rowpc' = [rowpc EXCEPT ![yy] = "right"]
    /\ UNCHANGED <<depth_map, levels, tile, rng, pc, outcome, num_strips, strip_width,
                   background_strip, x, y, phase, r, g, b, lastRead>>

RowRightPadStep(yy) ==
    /\ pc = "rows" /\ rowpc[yy] = "right"
    /\ image' = RightPadWrite(image, rowx[yy], yy)
    /\ writes' = Wrote(RightPadOffset(rowx[yy]), yy)
    /\ IF rowx[yy] + 1 < strip_width
       THEN rowx' = [rowx EXCEPT ![yy] = @ + 1] /\ UNCHANGED rowpc
       ELSE rowx' = [rowx EXCEPT ![yy] = 0] /\ rowpc' = [rowpc EXCEPT ![yy] = "done"]
    /\ UNCHANGED <<depth_map, levels, tile, rng, pc, outcome, num_strips, strip_width,
                   background_strip, x, y, phase, r, g, b, lastRead>>

\* return image, once every row is finished
RowsJoin ==
    /\ pc = "rows"
    /\ \A yy \in DOMAIN rowpc : rowpc[yy] = "done"
    /\ pc' = "done" /\ outcome' = "returned"
    /\ UNCHANGED <<depth_map, levels, tile, rng, num_strips, strip_width, image,
                   background_strip, x, y, phase, r, g, b, rowpc, rowx, writes,
                   lastRead>>

NextRows ==
    \/ Start
    \/ RandomDotStep
    \/ \E yy \in DOMAIN rowpc : RowLeftPadStep(yy)
    \/ \E yy \in DOMAIN rowpc : RowMainPassStep(yy)
    \/ \E yy \in DOMAIN rowpc : RowRightPadStep(yy)
    \/ RowsJoin

\* The schedule is a property of the row loop: the strip is the random one.
InitRows == Init /\ tile = None

SpecRows == InitRows /\ [][NextRows]_vars

\* The image the sequential loop `for y in range(height)` computes from the
\* strip built, by the writes of the row body in program order.
RECURSIVE RunLeftPad(_, _, _)
RunLeftPad(img, xx, yy) ==
    IF xx >= strip_width THEN img
    ELSE RunLeftPad(LeftPadWrite(img, xx, yy), xx + 1, yy)

RECURSIVE RunMainPass(_, _, _)
RunMainPass(img, xx, yy) ==
    IF xx >= depth_map.width THEN img
    ELSE RunMainPass(MainPassWrite(img, xx, yy), xx + 1, yy)

RECURSIVE RunRightPad(_, _, _)
RunRightPad(img, xx, yy) ==
    IF xx >= strip_width THEN img
    ELSE RunRightPad(RightPadWrite(img, xx, yy), xx + 1, yy)

RunRow(img, yy) == RunRightPad(RunMainPass(RunLeftPad(img, 0, yy), 0, yy), 0, yy)

RECURSIVE RunRows(_, _)
RunRows(img, yy) ==
    IF yy >= depth_map.height THEN img
    ELSE RunRows(RunRow(img, yy), yy + 1)

SequentialImage ==
    RunRows(NewImage(depth_map.width + strip_width * 2, depth_map.height), 0)

\* ================================================================ claims
Returned == pc = "done" /\ outcome = "returned"

\* The background strip is complete: the row loop runs or has run.
StripBuilt == pc = "rows" \/ Returned

ZeroDepth == \A c \in DOMAIN depth_map.pix : depth_map.pix[c] = 0

FullDepth == \A c \in DOMAIN depth_map.pix : depth_map.pix[c] = 255

\* C1: whenever floor(W * 0.75 / levels) >= 1, the image gen_autostereogram
\* allocates and returns has width W + 2 * floor(W / floor(W * 0.75 / levels))
\* and the height of the depth map, with or without a tile, and the call
\* ends by returning it.
C1_OutputSize ==
    (pc # "start" /\ (3 * depth_map.width) \div (4 * levels) >= 1) =>
        /\ image.width = depth_map.width
              + 2 * (depth_map.width \div ((3 * depth_map.width) \div (4 * levels)))
        /\ image.height = depth_map.height
        /\ DOMAIN image.pix = Cells(image.width, image.height)
        /\ pc = "done" => outcome = "returned"

C1_Witness ==
    /\ Returned
    /\ tile # None
    /\ num_strips = 2
    /\ image.width = depth_map.width + 2

\* C2: when W * 0.75 / levels < 1, gen_autostereogram ends in a reported
\* InvalidInput error, not in a division fault, and produces no image.
C2_InvalidInputReported ==
    (pc = "done" /\ (3 * depth_map.width) \div (4 * levels) = 0) =>
        /\ outcome = "InvalidInput"
        /\ image = None

\* C3: for a depth map that is 0 everywhere, every pixel (x, y) of the
\* returned image equals the background strip pixel (x mod stripWidth, y).
C3_FlatRepeatsStrip ==
    (Returned /\ ZeroDepth) =>
        \A c \in Cells(depth_map.width + 2 * strip_width, depth_map.height) :
            image.pix[c] = background_strip.pix[<<c[1] % strip_width, c[2]>>]

C3_Witness ==
    /\ Returned /\ ZeroDepth
    /\ tile = None
    /\ depth_map.height = 2
    /\ strip_width >= 2
    /\ background_strip.pix[<<0, 0>>] # background_strip.pix[<<0, 1>>]

\* C4: for a depth map that is 255 everywhere, every main-pass step uses
\* depthOffset = levels, and in the returned image every main-pass pixel
\* equals the pixel stripWidth - levels columns to its left.
C4_FullDepthPeriod ==
    (StripBuilt /\ FullDepth) =>
        /\ lastRead # <<>> => lastRead.src = lastRead.dst - strip_width + levels
        /\ Returned =>
              \A j \in strip_width .. strip_width + depth_map.width - 1,
                 yy \in 0 .. depth_map.height - 1 :
                    image.pix[<<j, yy>>] = image.pix[<<j - (strip_width - levels), yy>>]

C4_Witness ==
    /\ Returned /\ FullDepth
    /\ strip_width > levels
    /\ depth_map.height = 2
    /\ lastRead # <<>>

\* C5: under the row-parallel schedule, whatever the interleaving of the
\* rows' steps, a finished row holds exactly the pixels the sequential loop
\* gives it and a row not yet begun is untouched; so the returned image is
\* the sequential loop's image.
C5_RowsIndependent ==
    StripBuilt =>
        LET sequential == SequentialImage
        IN  \A yy \in DOMAIN rowpc :
                /\ rowpc[yy] = "done" =>
                      \A xx \in 0 .. image.width - 1 :
                          image.pix[<<xx, yy>>] = sequential.pix[<<xx, yy>>]
                /\ (rowpc[yy] = "left" /\ rowx[yy] = 0) =>
                      \A xx \in 0 .. image.width - 1 : image.pix[<<xx, yy>>] = Black

C5_Witness ==
    /\ pc = "rows"
    /\ depth_map.height >= 2
    /\ rowpc[1] = "done"
    /\ rowpc[0] = "main" /\ rowx[0] > 0
    /\ depth_map.pix[<<0, 0>>] # depth_map.pix[<<0, 1>>]

\* C6: in the returned image every right-pad pixel equals the pixel one
\* strip width to its left, whatever the depth map, levels and strip are.
C6_RightPadCopies ==
    Returned =>
        \A xx \in 0 .. strip_width - 1, yy \in 0 .. depth_map.height - 1 :
            image.pix[<<depth_map.width + strip_width + xx, yy>>]
                = image.pix[<<depth_map.width + xx, yy>>]

C6_Witness ==
    /\ Returned
    /\ ~ZeroDepth /\ ~FullDepth
    /\ \E xx \in 0 .. strip_width - 1 :
          image.pix[<<depth_map.width + strip_width + xx, 0>>]
              # background_strip.pix[<<xx, 0>>]

\* C7: the strip gen_strip_from_tile returns has the requested width and
\* height, its pixel (x, y) is the tile's pixel (x mod tileWidth,
\* y mod tileHeight), and the tile is as it was passed.
C7_TiledStrip ==
    (StripBuilt /\ tile # None) =>
        /\ background_strip.width = strip_width
        /\ background_strip.height = depth_map.height
        /\ DOMAIN background_strip.pix = Cells(strip_width, depth_map.height)
        /\ \A c \in Cells(strip_width, depth_map.height) :
              background_strip.pix[c] = tile.pix[<<c[1] % tile.width, c[2] % tile.height>>]
        /\ tile = MkTile(tile.width, tile.height)

C7_Witness ==
    /\ pc = "rows"
    /\ tile # None
    /\ tile.width > 1 /\ tile.width < background_strip.width
    /\ tile.height < background_strip.height

\* C8: every channel value gen_random_dot_strip draws and assigns is an
\* integer in [0, 256), that is in 0..255.
C8_ChannelsInByteRange ==
    \A c \in {r, g, b} : c # -1 => c \in 0 .. 255

\* C9: whenever numStrips >= 1 the strip width is strictly greater than
\* levels, and the cell every main-pass step reads lies strictly left of the
\* cell it writes and was written before it is read.
C9_StripWiderThanLevels ==
    (pc # "start" /\ num_strips >= 1) =>
        /\ strip_width > levels
        /\ lastRead # <<>> => (lastRead.src < lastRead.dst /\ lastRead.written)

\* C10: in every row the cells assigned so far are the leftmost ones, each
\* assigned exactly once; and once the image is returned every cell has been
\* assigned.
C10_WrittenOnceLeftToRight ==
    StripBuilt =>
        /\ \A yy \in 0 .. depth_map.height - 1 :
              \E k \in 0 .. image.width :
                  \A xx \in 0 .. image.width - 1 :
                      writes[<<xx, yy>>] = IF xx < k THEN 1 ELSE 0
        /\ Returned => \A c \in DOMAIN writes : writes[c] = 1
        /\ DOMAIN writes = Cells(depth_map.width + 2 * strip_width, depth_map.height)

C10_Witness ==
    /\ Returned
    /\ depth_map.width = 3 /\ depth_map.height = 2
    /\ levels = 2
    /\ \A c \in DOMAIN writes : writes[c] = 1

====
